---- MODULE Spec2Model ----
(***************************************************************************)
(* VoicePay hybrid router (src/main.py): schema-aware call normalisation   *)
(* and validation, complexity and payment-risk extraction, candidate       *)
(* scoring and the pass-1 / pass-2 / cloud escalation of generate_hybrid.  *)
(*                                                                         *)
(* Representation.                                                         *)
(*   text        a sequence of one-character strings ("send" is            *)
(*               <<"s","e","n","d">>), so that substring tests and the     *)
(*               regular expressions of the source act on characters;      *)
(*               the characters are those of Latin-1, and a text has       *)
(*               fewer than 10^8 of them;                                  *)
(*   floats      confidences, thresholds, scores and amounts are IEEE 754  *)
(*               binary64 values [cls, neg, man, exp] with the arithmetic  *)
(*               of Python's float (round to nearest, ties to even);       *)
(*               Milli(965) is the float of the literal 0.965;             *)
(*   ints        the integers of the checker (32 bits);                    *)
(*   values      a Python value is a record [k, s, n, b, f]: k its type    *)
(*               ("str", "int", "float", "bool", "list", "dict", "none"),  *)
(*               s its characters (str), n its integer (int), b its truth  *)
(*               value (bool), f its float (float).                        *)
(***************************************************************************)
EXTENDS Integers, Sequences, FiniteSets, TLC

\* ------------------------------------------------------------------------
\* Characters and text
\* ------------------------------------------------------------------------

UpperChars == <<"A","B","C","D","E","F","G","H","I","J","K","L","M",
                "N","O","P","Q","R","S","T","U","V","W","X","Y","Z">>

LowerChars == <<"a","b","c","d","e","f","g","h","i","j","k","l","m",
                "n","o","p","q","r","s","t","u","v","w","x","y","z">>

DigitChars == <<"0","1","2","3","4","5","6","7","8","9">>

\* The letters of Latin-1 that str.lower() changes, and what they become
LatinUpperChars == <<"À","Á","Â","Ã","Ä","Å","Æ","Ç","È","É","Ê","Ë","Ì",
                "Í","Î","Ï","Ð","Ñ","Ò","Ó","Ô","Õ","Ö","Ø","Ù","Ú",
                "Û","Ü","Ý","Þ">>

LatinLowerChars == <<"à","á","â","ã","ä","å","æ","ç","è","é","ê","ë","ì",
                "í","î","ï","ð","ñ","ò","ó","ô","õ","ö","ø","ù","ú",
                "û","ü","ý","þ">>

\* The other characters of Latin-1 that \w matches and str.lower() keeps
LatinWordChars == {"ª","²","³","µ","¹","º","¼","½","¾","ß","ÿ"}

\* The characters of Latin-1 for which str.isspace() holds: space, \t, \n,
\* \r, \f, \v, the separators U+001C to U+001F, U+0085 and U+00A0
WhiteSpaceChars ==
    {" ", "\t", "\n", "\r", "\f", "", "", "", "", "",
     "", " "}

\* The superscript digits: str.isdigit() holds, int() raises ValueError
SuperscriptDigits == {"²", "³", "¹"}

Range(f) == {f[i] : i \in DOMAIN f}

SetMax(S) == CHOOSE m \in S : \A x \in S : x <= m

SetMin(S) == CHOOSE m \in S : \A x \in S : m <= x

IsUpper(c) == c \in Range(UpperChars)

\* [a-zA-Z]
IsAlpha(c) == c \in Range(UpperChars) \cup Range(LowerChars)

IsDigit(c) == c \in Range(DigitChars)

\* \s of the regular expressions and the characters str.strip() removes
IsSpace(c) == c \in WhiteSpaceChars

\* The whitespace float() removes around a literal: not U+001C to U+001F
IsFloatSpace(c) == c \in WhiteSpaceChars \ {"", "", "", ""}

\* [a-zA-Z0-9_]
IsNameChar(c) == IsAlpha(c) \/ IsDigit(c) \/ c = "_"

\* \w of the regular expressions
IsWordChar(c) ==
    \/ IsNameChar(c)
    \/ c \in Range(LatinUpperChars) \cup Range(LatinLowerChars) \cup LatinWordChars

DigitVal(c) == (CHOOSE i \in DOMAIN DigitChars : DigitChars[i] = c) - 1

\* str.lower() of one character
LowerChar(c) ==
    IF IsUpper(c)
    THEN LowerChars[CHOOSE i \in DOMAIN UpperChars : UpperChars[i] = c]
    ELSE IF c \in Range(LatinUpperChars)
    THEN LatinLowerChars[CHOOSE i \in DOMAIN LatinUpperChars :
                            LatinUpperChars[i] = c]
    ELSE c

\* str.lower()
Lower(text) == [i \in DOMAIN text |-> LowerChar(text[i])]

\* text[i:].startswith(pat)
MatchAt(text, pat, i) ==
    /\ i >= 1
    /\ i + Len(pat) - 1 <= Len(text)
    /\ \A k \in 1..Len(pat) : text[i + k - 1] = pat[k]

\* pat in text
Contains(text, pat) == \E i \in 1..(Len(text) + 1) : MatchAt(text, pat, i)

\* text.count(c) for a one-character c
CountChar(text, c) == Cardinality({i \in DOMAIN text : text[i] = c})

\* The last index k >= i - 1 such that every character of text[i..k] is in
\* the class: the end of a greedy run starting at i (i - 1: an empty run).
DigitRunEnd(text, i) ==
    CHOOSE k \in (i - 1)..Len(text) :
        /\ k = Len(text) \/ ~IsDigit(text[k + 1])
        /\ \A m \in i..k : IsDigit(text[m])

SpaceRunEnd(text, i) ==
    CHOOSE k \in (i - 1)..Len(text) :
        /\ k = Len(text) \/ ~IsSpace(text[k + 1])
        /\ \A m \in i..k : IsSpace(text[m])

\* \b before position i: a word character at i and none at i - 1
WordStartAt(text, i) ==
    /\ i \in DOMAIN text
    /\ IsWordChar(text[i])
    /\ (i = 1 \/ ~IsWordChar(text[i - 1]))

\* \b after position k: a word character at k and none at k + 1
WordEndAt(text, k) ==
    /\ k \in DOMAIN text
    /\ IsWordChar(text[k])
    /\ (k = Len(text) \/ ~IsWordChar(text[k + 1]))

RECURSIVE ParseDigits(_)
\* int() of a run of decimal digits, within the integers of the checker
ParseDigits(ds) ==
    IF Len(ds) = 0 THEN 0
    ELSE 10 * ParseDigits(SubSeq(ds, 1, Len(ds) - 1)) + DigitVal(ds[Len(ds)])

\* str.strip()
Strip(text) ==
    SubSeq(text,
           CHOOSE i \in 1..(Len(text) + 1) :
               /\ i = Len(text) + 1 \/ ~IsSpace(text[i])
               /\ \A m \in 1..(i - 1) : IsSpace(text[m]),
           CHOOSE j \in 0..Len(text) :
               /\ j = 0 \/ ~IsSpace(text[j])
               /\ \A m \in (j + 1)..Len(text) : IsSpace(text[m]))

RECURSIVE Concat(_)
\* The concatenation of a sequence of lists
Concat(lists) ==
    IF Len(lists) = 0 THEN <<>> ELSE lists[1] \o Concat(Tail(lists))

RECURSIVE JoinSpace(_)
\* " ".join(parts)
JoinSpace(parts) ==
    IF Len(parts) = 0 THEN <<>>
    ELSE IF Len(parts) = 1 THEN parts[1]
    ELSE parts[1] \o <<" ">> \o JoinSpace(Tail(parts))


\* ------------------------------------------------------------------------
\* Natural numbers wider than 32 bits: little-endian sequences of limbs
\* below 2^15, without leading zero limbs (<<>> is zero). They carry the
\* 53-bit significands of Python's floats. Carries are found by lookahead
\* and long operations split in halves, which keeps the evaluation shallow.
\* ------------------------------------------------------------------------

Limb == 2^15

BigTrim(a) == SubSeq(a, 1, SetMax({0} \cup {i \in DOMAIN a : a[i] # 0}))

\* 0 <= n < 2^31
BigOfInt(n) == BigTrim(<<n % Limb, (n \div Limb) % Limb, n \div (Limb * Limb)>>)

LimbAt(a, i) == IF i \in DOMAIN a THEN a[i] ELSE 0

\* the carry into limb i of a + b
CarryInto(a, b, i) ==
    \E j \in 1..(i - 1) :
        /\ LimbAt(a, j) + LimbAt(b, j) >= Limb
        /\ \A k \in (j + 1)..(i - 1) : LimbAt(a, k) + LimbAt(b, k) = Limb - 1

BigAdd(a, b) ==
    BigTrim([i \in 1..((IF Len(a) > Len(b) THEN Len(a) ELSE Len(b)) + 1) |->
                (LimbAt(a, i) + LimbAt(b, i)
                 + (IF CarryInto(a, b, i) THEN 1 ELSE 0)) % Limb])

\* the borrow from limb i of a - b
BorrowFrom(a, b, i) ==
    \E j \in 1..(i - 1) :
        /\ LimbAt(a, j) < LimbAt(b, j)
        /\ \A k \in (j + 1)..(i - 1) : LimbAt(a, k) = LimbAt(b, k)

\* a - b for a >= b
BigSub(a, b) ==
    BigTrim([i \in 1..Len(a) |->
                (a[i] - LimbAt(b, i)
                 - (IF BorrowFrom(a, b, i) THEN 1 ELSE 0)) % Limb])

\* a < b: the highest limb in which they differ decides
BigLess(a, b) ==
    \E i \in DOMAIN b :
        /\ LimbAt(a, i) < b[i]
        /\ \A k \in (i + 1)..(IF Len(a) > Len(b) THEN Len(a) ELSE Len(b)) :
               LimbAt(a, k) = LimbAt(b, k)

\* a * m for m < 2^15: the low and the high halves of the limb products
BigMul(a, m) ==
    BigAdd([i \in DOMAIN a |-> (a[i] * m) % Limb],
           <<0>> \o [i \in DOMAIN a |-> (a[i] * m) \div Limb])

\* a * 2^n
BigShl(a, n) ==
    IF Len(a) = 0 THEN <<>>
    ELSE [i \in 1..(n \div 15) |-> 0] \o BigMul(a, 2^(n % 15))

\* a \div 2^n
BigShr(a, n) ==
    BigTrim([i \in 1..(Len(a) - n \div 15) |->
                LimbAt(a, i + n \div 15) \div 2^(n % 15)
                + (LimbAt(a, i + n \div 15 + 1) % 2^(n % 15)) * 2^(15 - (n % 15))])

\* bit i of a, bit 0 the lowest
BigBit(a, i) == (LimbAt(a, i \div 15 + 1) \div 2^(i % 15)) % 2

\* a is a multiple of 2^n
BigLowZero(a, n) == BigShl(BigShr(a, n), n) = a

\* the number of bits of a
BigBits(a) ==
    IF Len(a) = 0 THEN 0
    ELSE 15 * (Len(a) - 1)
         + (CHOOSE k \in 1..15 : 2^(k - 1) <= a[Len(a)] /\ a[Len(a)] < 2^k)

RECURSIVE DivRange(_, _, _, _, _)

DivGlue(low, upper) == [q |-> low.q \o upper.q, r |-> low.r]

\* the lower half, once the upper half has left its remainder below d
DivLower(upper, a, d, lo, mid) ==
    IF upper.r < d THEN DivGlue(DivRange(a, d, lo, mid, upper.r), upper)
    ELSE upper

\* Long division of the limbs lo..hi of a by d <= 2^15 with the remainder r
\* carried in from above: [q, r], the upper half first
DivRange(a, d, lo, hi, r) ==
    IF lo > hi THEN [q |-> <<>>, r |-> r]
    ELSE IF lo = hi
    THEN [q |-> <<(r * Limb + a[lo]) \div d>>, r |-> (r * Limb + a[lo]) % d]
    ELSE DivLower(DivRange(a, d, (lo + hi) \div 2 + 1, hi, r),
                  a, d, lo, (lo + hi) \div 2)

\* [q, r]: a = q * d + r for 0 < d <= 2^15
BigDivRem(a, d) == DivRange(a, d, 1, Len(a), 0)

RECURSIVE BigTimesTen(_, _)
\* a * 10^k
BigTimesTen(a, k) ==
    IF Len(a) = 0 THEN a
    ELSE IF k <= 4 THEN BigMul(a, 10^k)
    ELSE BigTimesTen(BigTimesTen(a, k \div 2), k - k \div 2)

TenthOf(qr, inexact) == [q |-> BigTrim(qr.q), inexact |-> inexact \/ qr.r # 0]

RECURSIVE BigTenth(_, _)
\* t = [q, inexact] divided by 10^k: the quotient, inexact when a division
\* left a remainder
BigTenth(t, k) ==
    IF Len(t.q) = 0 THEN t
    ELSE IF k <= 4 THEN TenthOf(BigDivRem(t.q, 10^k), t.inexact)
    ELSE BigTenth(BigTenth(t, k \div 2), k - k \div 2)

RECURSIVE BigOfDigits(_)
\* int() of a sequence of decimal digits of any length
BigOfDigits(ds) ==
    IF Len(ds) = 0 THEN <<>>
    ELSE IF Len(ds) = 1 THEN BigOfInt(DigitVal(ds[1]))
    ELSE BigAdd(BigTimesTen(BigOfDigits(SubSeq(ds, 1, Len(ds) \div 2)),
                            Len(ds) - Len(ds) \div 2),
                BigOfDigits(SubSeq(ds, Len(ds) \div 2 + 1, Len(ds))))

\* ------------------------------------------------------------------------
\* Python floats: IEEE 754 binary64, round to nearest, ties to even
\* ------------------------------------------------------------------------
\* A float is [cls, neg, man, exp]: cls "finite", "inf" or "nan", neg its
\* sign bit, and for a finite float the value man * 2^exp with man a wide
\* natural of exactly 53 bits (fewer only at exp = -1074, the subnormals;
\* zero is man = <<>>, exp = 0).
Binary64(neg, man, exp) == [cls |-> "finite", neg |-> neg, man |-> man, exp |-> exp]

FloatZero(neg) == Binary64(neg, <<>>, 0)

FloatInf(neg) == [cls |-> "inf", neg |-> neg, man |-> <<>>, exp |-> 0]

FloatNaN == [cls |-> "nan", neg |-> FALSE, man |-> <<>>, exp |-> 0]

IsZero(x) == x.cls = "finite" /\ Len(x.man) = 0

\* n \div 2^s rounded to nearest, ties to even; inexact: the exact value
\* lies above n by less than one
RoundShift(n, s, inexact) ==
    IF BigBit(n, s - 1) = 1
       /\ (inexact \/ ~BigLowZero(n, s - 1) \/ BigBit(n, s) = 1)
    THEN BigAdd(BigShr(n, s), <<1>>)
    ELSE BigShr(n, s)

Overflow(neg, m, e) ==
    IF BigBits(m) + e > 1024 THEN FloatInf(neg) ELSE Binary64(neg, m, e)

\* the float of a rounded significand m at exponent e
Pack(neg, m, e) ==
    IF Len(m) = 0 THEN FloatZero(neg)
    ELSE IF BigBits(m) = 54 THEN Overflow(neg, BigShr(m, 1), e + 1)
    ELSE Overflow(neg, m, e)

\* the float nearest to (n + inexact) * 2^e, its lowest bit worth 2^t
RoundAt(neg, n, e, inexact, t) ==
    IF t > e THEN Pack(neg, RoundShift(n, t - e, inexact), t)
    ELSE Pack(neg, BigShl(n, e - t), t)

FloatRound(neg, n, e, inexact) ==
    RoundAt(neg, n, e, inexact,
            IF e + BigBits(n) - 53 > 0 - 1074 THEN e + BigBits(n) - 53
            ELSE 0 - 1074)

\* |x| < |y| for finite x and y
MagLess(x, y) ==
    IF Len(x.man) = 0 \/ Len(y.man) = 0 THEN Len(y.man) # 0 /\ Len(x.man) = 0
    ELSE IF x.exp # y.exp THEN x.exp < y.exp
    ELSE BigLess(x.man, y.man)

\* |x| + |y| or |x| - |y| with the sign neg, for finite |x| >= |y| > 0
AddMag(neg, x, y, subtract) ==
    IF x.exp - y.exp <= 64
    THEN FloatRound(neg,
                    IF subtract THEN BigSub(BigShl(x.man, x.exp - y.exp), y.man)
                    ELSE BigAdd(BigShl(x.man, x.exp - y.exp), y.man),
                    y.exp, FALSE)
    ELSE FloatRound(neg,
                    IF subtract THEN BigSub(BigShl(x.man, 64), <<1>>)
                    ELSE BigShl(x.man, 64),
                    x.exp - 64, TRUE)

FloatAddFinite(x, y) ==
    IF Len(x.man) = 0 /\ Len(y.man) = 0 THEN FloatZero(x.neg /\ y.neg)
    ELSE IF Len(y.man) = 0 THEN x
    ELSE IF Len(x.man) = 0 THEN y
    ELSE IF x.neg = y.neg
    THEN (IF MagLess(x, y) THEN AddMag(x.neg, y, x, FALSE)
          ELSE AddMag(x.neg, x, y, FALSE))
    ELSE IF x.man = y.man /\ x.exp = y.exp THEN FloatZero(FALSE)
    ELSE IF MagLess(x, y) THEN AddMag(y.neg, y, x, TRUE)
    ELSE AddMag(x.neg, x, y, TRUE)

\* x + y
FloatAdd(x, y) ==
    IF x.cls = "nan" \/ y.cls = "nan" THEN FloatNaN
    ELSE IF x.cls = "inf"
    THEN (IF y.cls = "inf" /\ x.neg # y.neg THEN FloatNaN ELSE x)
    ELSE IF y.cls = "inf" THEN y
    ELSE FloatAddFinite(x, y)

\* -x
FloatNeg(x) == IF x.cls = "nan" THEN x ELSE [x EXCEPT !.neg = ~x.neg]

\* x - y
FloatSub(x, y) == FloatAdd(x, FloatNeg(y))

\* x * k for an int 0 <= k < 2^15
FloatTimes(x, k) ==
    IF x.cls = "nan" \/ (x.cls = "inf" /\ k = 0) THEN FloatNaN
    ELSE IF x.cls = "inf" THEN x
    ELSE IF k = 0 THEN FloatZero(x.neg)
    ELSE FloatRound(x.neg, BigMul(x.man, k), x.exp, FALSE)

\* x == y
FloatEq(x, y) ==
    /\ x.cls # "nan"
    /\ y.cls # "nan"
    /\ (x = y \/ (IsZero(x) /\ IsZero(y)))

\* x < y
FloatLess(x, y) ==
    IF x.cls = "nan" \/ y.cls = "nan" \/ FloatEq(x, y) THEN FALSE
    ELSE IF IsZero(x) THEN ~y.neg
    ELSE IF IsZero(y) THEN x.neg
    ELSE IF x.neg # y.neg THEN x.neg
    ELSE IF x.cls = "inf" THEN x.neg
    ELSE IF y.cls = "inf" THEN ~y.neg
    ELSE IF x.neg THEN MagLess(y, x)
    ELSE MagLess(x, y)

\* x >= y
FloatGE(x, y) == FloatLess(y, x) \/ FloatEq(x, y)

\* max(x, y) and min(x, y): the first argument unless the second is beyond
FloatMax(x, y) == IF FloatLess(x, y) THEN y ELSE x

FloatMin(x, y) == IF FloatLess(y, x) THEN y ELSE x

FloatOfQuotient(neg, t, e) == FloatRound(neg, t.q, e, t.inexact)

\* The float nearest to n * 10^dexp for a wide natural n: the value of a
\* decimal literal
FloatOfDecimal(neg, n, dexp) ==
    IF Len(n) = 0 THEN FloatZero(neg)
    ELSE IF dexp >= 0
    THEN (IF BigBits(n) - 1 + 3 * dexp >= 1024 THEN FloatInf(neg)
          ELSE FloatRound(neg, BigTimesTen(n, dexp), 0, FALSE))
    ELSE IF BigBits(n) + 3 * dexp < 0 - 1076 THEN FloatZero(neg)
    ELSE FloatOfQuotient(neg,
                         BigTenth([q |-> BigShl(n, 64 - 4 * dexp), inexact |-> FALSE],
                                  0 - dexp),
                         4 * dexp - 64)

\* The digits ds from their first digit that is not 0
Significant(ds) ==
    SubSeq(ds,
           CHOOSE i \in 1..(Len(ds) + 1) :
               /\ i = Len(ds) + 1 \/ ds[i] # "0"
               /\ \A m \in 1..(i - 1) : ds[m] = "0",
           Len(ds))

\* The float of the decimal literal of the digits ds, the first not 0, times
\* 10^dexp: inf from 10^309 on and 0.0 below 10^-324, whatever the digits
FloatOfLiteral(neg, ds, dexp) ==
    IF Len(ds) = 0 THEN FloatZero(neg)
    ELSE IF Len(ds) - 1 + dexp >= 309 THEN FloatInf(neg)
    ELSE IF Len(ds) + dexp < 0 - 324 THEN FloatZero(neg)
    ELSE FloatOfDecimal(neg, BigOfDigits(ds), dexp)

\* The float written as the decimal literal n / 1000: Milli(965) is 0.965
Milli(n) == FloatOfDecimal(n < 0, BigOfInt(IF n < 0 THEN 0 - n ELSE n), 0 - 3)
\* ------------------------------------------------------------------------
\* Text analysis of the conversation
\* ------------------------------------------------------------------------
\* A definition of the source is split where it shares an intermediate
\* value: the value is computed once and handed on as a parameter.

\* " ".join(m.get("content", "") for m in messages if ... role == "user")
UserText(messages) ==
    LET F[i \in 0..Len(messages)] ==
            IF i = 0 THEN <<>>
            ELSE IF messages[i].role = "user"
            THEN Append(F[i - 1], messages[i].content)
            ELSE F[i - 1]
    IN  JoinSpace(F[Len(messages)])

\* The signal tokens of _estimate_complexity
signals ==
    << <<" ","a","n","d"," ">>,
       <<" ","t","h","e","n"," ">>,
       <<" ","a","f","t","e","r"," ","t","h","a","t"," ">>,
       <<" ","a","l","s","o"," ">>,
       <<" ","p","l","u","s"," ">>,
       <<" ","w","h","i","l","e"," ">> >>

\* The end of a match of \d+ that starts at j, or 0 when there is none
DigitsFrom(text, j) ==
    IF DigitRunEnd(text, j) >= j THEN DigitRunEnd(text, j) ELSE 0

\* The end of a match of \$\s*\d+ that starts at i, or 0 when there is none
DollarMatchEnd(text, i) ==
    IF i \in DOMAIN text /\ text[i] = "$"
    THEN DigitsFrom(text, SpaceRunEnd(text, i + 1) + 1)
    ELSE 0

\* The end of a match of (usd|dollars?)\b that starts at u, or 0
UnitWordEnd(text, u) ==
    LET Ok(pat) == MatchAt(text, pat, u) /\ WordEndAt(text, u + Len(pat) - 1)
    IN  IF Ok(<<"u","s","d">>) THEN u + 2
        ELSE IF Ok(<<"d","o","l","l","a","r","s">>) THEN u + 6
        ELSE IF Ok(<<"d","o","l","l","a","r">>) THEN u + 5
        ELSE 0

\* The end of a match of \b\d+\s*(usd|dollars?)\b that starts at i, or 0
UnitMatchEnd(text, i) ==
    IF WordStartAt(text, i) /\ IsDigit(text[i])
    THEN UnitWordEnd(text, SpaceRunEnd(text, DigitRunEnd(text, i) + 1) + 1)
    ELSE 0

RECURSIVE MoneyMentions(_, _)
\* One step of the scan at i: a, b the ends of the two alternatives there
MoneyStep(text, i, a, b) ==
    IF a > 0 THEN 1 + MoneyMentions(text, a + 1)
    ELSE IF b > 0 THEN 1 + MoneyMentions(text, b + 1)
    ELSE MoneyMentions(text, i + 1)

\* len(re.findall(r"\$\s*\d+|\b\d+\s*(usd|dollars?)\b", text)), scanning from i
MoneyMentions(text, i) ==
    IF i > Len(text) THEN 0
    ELSE MoneyStep(text, i, DollarMatchEnd(text, i), UnitMatchEnd(text, i))

ComplexityOf(signal_hits, punctuation_hits, has_multiple_money_mentions) ==
    [label |-> IF signal_hits >= 2 \/ punctuation_hits >= 2
                  \/ has_multiple_money_mentions
               THEN "multi_intent" ELSE "single_intent",
     signal_hits |-> signal_hits,
     punctuation_hits |-> punctuation_hits]

ComplexityOfText(user_text) ==
    ComplexityOf(
        Cardinality({t \in DOMAIN signals : Contains(user_text, signals[t])}),
        CountChar(user_text, ",") + CountChar(user_text, ";"),
        MoneyMentions(user_text, 1) > 1)

_estimate_complexity(messages) == ComplexityOfText(Lower(UserText(messages)))

\* float() of the group (\d+(?:\.\d+)?): the digits whole before the
\* point and the digits frac after it
AmountOf(whole, frac) ==
    [found |-> TRUE,
     amount |-> FloatOfLiteral(FALSE, Significant(whole \o frac),
                               0 - Len(frac))]

\* The group (\d+(?:\.\d+)?) at j..k with f the end of the digits after k + 1
AmountValue(text, j, k, f) ==
    AmountOf(SubSeq(text, j, k),
             IF k + 1 <= Len(text) /\ text[k + 1] = "." /\ f >= k + 2
             THEN SubSeq(text, k + 2, f) ELSE <<>>)

AmountDigits(text, j, k) == AmountValue(text, j, k, DigitRunEnd(text, k + 2))

\* The match whose "$" is the first of starts
AmountFrom(text, starts) ==
    IF starts = {} THEN [found |-> FALSE, amount |-> FloatZero(FALSE)]
    ELSE AmountDigits(text, SpaceRunEnd(text, SetMin(starts) + 1) + 1,
                      DollarMatchEnd(text, SetMin(starts)))

\* re.search(r"\$\s*(\d+(?:\.\d+)?)", text): [found, amount]
AmountMatch(text) ==
    AmountFrom(text, {i \in DOMAIN text : DollarMatchEnd(text, i) > 0})

\* dict.get(key, default) on a context held as a function of its keys
Get(ctx, key, default) == IF key \in DOMAIN ctx THEN ctx[key] ELSE default

\* ctx[key] = value unless ctx has the key (or the condition fails)
SetDefault(ctx, cond, key, value) ==
    IF cond /\ key \notin DOMAIN ctx THEN (key :> value) @@ ctx ELSE ctx

ContextOfText(text, amount_match, ctx) ==
    SetDefault(
        SetDefault(
            SetDefault(ctx, amount_match.found, "amount", amount_match.amount),
            Contains(text, <<"n","e","w"," ","p","a","y","e","e">>),
            "new_payee", TRUE),
        Contains(text, <<"f","i","r","s","t"," ","t","i","m","e">>),
        "first_time_payee", TRUE)

_extract_payment_context(messages, payment_context) ==
    ContextOfText(Lower(UserText(messages)),
                  AmountMatch(Lower(UserText(messages))),
                  payment_context)

\* The end of [a-zA-Z][a-zA-Z0-9_ ]{1,30} at p, or 0 when it does not match
PayeeRunEnd(text, p, r) == IF r >= p + 1 THEN r ELSE 0

PayeeGroupEnd(text, p) ==
    IF p <= Len(text) /\ IsAlpha(text[p])
    THEN PayeeRunEnd(text, p,
             SetMax({k \in p..Len(text) :
                        /\ k <= p + 30
                        /\ \A m \in (p + 1)..k :
                              IsNameChar(text[m]) \/ text[m] = " "}))
    ELSE 0

\* re.search(r"\bto\s+([a-zA-Z][a-zA-Z0-9_ ]{1,30})", text): the end of the
\* group of a match whose "to" starts at i, or 0 when there is none
PayeeMatchEnd(text, i) ==
    IF /\ (i = 1 \/ (i - 1 \in DOMAIN text /\ ~IsWordChar(text[i - 1])))
       /\ MatchAt(text, <<"t","o">>, i)
       /\ SpaceRunEnd(text, i + 2) >= i + 2
    THEN PayeeGroupEnd(text, SpaceRunEnd(text, i + 2) + 1)
    ELSE 0

unknown == <<"u","n","k","n","o","w","n">>

\* to_match.group(1).strip() of the match whose "to" starts at i
PayeeAt(text, i) ==
    Strip(SubSeq(text, SpaceRunEnd(text, i + 2) + 1, PayeeMatchEnd(text, i)))

SimplePayment(text, amount_match, starts) ==
    [amount |-> IF amount_match.found THEN amount_match.amount ELSE Milli(20000),
     payee |-> IF starts = {} THEN unknown ELSE PayeeAt(text, SetMin(starts))]

_extract_simple_payment(text) ==
    SimplePayment(text, AmountMatch(Lower(text)),
                  {i \in DOMAIN text : PayeeMatchEnd(text, i) > 0})

\* ------------------------------------------------------------------------
\* Python values
\* ------------------------------------------------------------------------

V(k, s, n, b) == [k |-> k, s |-> s, n |-> n, b |-> b, f |-> FloatZero(FALSE)]

PyStr(s) == V("str", s, 0, FALSE)

PyInt(n) == V("int", <<>>, n, FALSE)

PyFloat(x) == [V("float", <<>>, 0, FALSE) EXCEPT !.f = x]

PyBool(b) == V("bool", <<>>, 0, b)

PyNone == V("none", <<>>, 0, FALSE)

PyList == V("list", <<>>, 0, FALSE)

PyDict == V("dict", <<>>, 0, FALSE)

\* type(value).__name__
TypeName(value) ==
    CASE value.k = "str" -> "str"
      [] value.k = "int" -> "int"
      [] value.k = "float" -> "float"
      [] value.k = "bool" -> "bool"
      [] value.k = "list" -> "list"
      [] value.k = "dict" -> "dict"
      [] OTHER -> "NoneType"

\* An absent or null "type" of a parameter schema (expected_type is None)
TypeNone == "None"

\* str.isdigit()
IsDigitStr(s) ==
    Len(s) > 0 /\ \A i \in DOMAIN s : IsDigit(s[i]) \/ s[i] \in SuperscriptDigits

\* sys.get_int_max_str_digits(): the most digits int() converts
IntMaxStrDigits == 4300

\* int(s) of a string of digits raises ValueError: a digit that is no
\* decimal digit, or more digits than int() converts
IntRaises(s) ==
    \/ \E i \in DOMAIN s : s[i] \in SuperscriptDigits
    \/ Len(s) > IntMaxStrDigits

\* The text without the whitespace float() removes at both ends
FloatStrip(text) ==
    SubSeq(text,
           CHOOSE i \in 1..(Len(text) + 1) :
               /\ i = Len(text) + 1 \/ ~IsFloatSpace(text[i])
               /\ \A m \in 1..(i - 1) : IsFloatSpace(text[m]),
           CHOOSE j \in 0..Len(text) :
               /\ j = 0 \/ ~IsFloatSpace(text[j])
               /\ \A m \in (j + 1)..Len(text) : IsFloatSpace(text[m]))

\* float() admits an underscore only between two digits
UnderscoresOk(t) ==
    \A i \in DOMAIN t :
        t[i] = "_" =>
            /\ i - 1 \in DOMAIN t /\ IsDigit(t[i - 1])
            /\ i + 1 \in DOMAIN t /\ IsDigit(t[i + 1])

NoUnderscores(t) == SelectSeq(t, LAMBDA c : c # "_")

\* float() raises ValueError
ParseFailed == [ok |-> FALSE, value |-> FloatZero(FALSE)]

\* The greatest exponent told apart: a literal of fewer than 10^8 digits
\* with this exponent or a greater one is 0.0 or inf
ExponentCap == 5 * 10^8

\* The exponent written ds, ds without leading zeros
ExponentValue(ds) ==
    IF Len(ds) > 9 THEN ExponentCap
    ELSE IF ParseDigits(ds) > ExponentCap THEN ExponentCap
    ELSE ParseDigits(ds)

\* The float of the literal whole.frac e exponent
Literal(negative, whole, frac, exponent) ==
    [ok |-> TRUE,
     value |-> FloatOfLiteral(negative, Significant(whole \o frac),
                              exponent - Len(frac))]

\* The digits ds of an exponent with its sign
ExponentDigits(negative, whole, frac, minus, ds) ==
    IF Len(ds) > 0 /\ \A i \in DOMAIN ds : IsDigit(ds[i])
    THEN Literal(negative, whole, frac,
                 IF minus THEN 0 - ExponentValue(Significant(ds))
                 ELSE ExponentValue(Significant(ds)))
    ELSE ParseFailed

\* The exponent of u after its "e": an optional sign at p, then digits
ParseExponent(negative, whole, frac, u, p) ==
    IF p <= Len(u) /\ u[p] \in {"+", "-"}
    THEN ExponentDigits(negative, whole, frac, u[p] = "-", SubSeq(u, p + 1, Len(u)))
    ELSE ExponentDigits(negative, whole, frac, FALSE, SubSeq(u, p, Len(u)))

\* The digits of u read up to f: a digit is required, and what follows is
\* nothing or an exponent
ParseMantissa(negative, whole, frac, u, f) ==
    IF Len(whole) + Len(frac) = 0 THEN ParseFailed
    ELSE IF f = Len(u) THEN Literal(negative, whole, frac, 0)
    ELSE IF u[f + 1] \in {"e", "E"}
    THEN ParseExponent(negative, whole, frac, u, f + 2)
    ELSE ParseFailed

\* The digits of u before the point end at e
ParseFraction(negative, u, e) ==
    IF e + 1 <= Len(u) /\ u[e + 1] = "."
    THEN ParseMantissa(negative, SubSeq(u, 1, e),
                       SubSeq(u, e + 2, DigitRunEnd(u, e + 2)),
                       u, DigitRunEnd(u, e + 2))
    ELSE ParseMantissa(negative, SubSeq(u, 1, e), <<>>, u, e)

\* A literal without its sign: inf, infinity or nan in any case, or a number
ParseUnsigned(negative, u) ==
    IF Lower(u) \in { <<"i","n","f">>, <<"i","n","f","i","n","i","t","y">> }
    THEN [ok |-> TRUE, value |-> FloatInf(negative)]
    ELSE IF Lower(u) = <<"n","a","n">>
    THEN [ok |-> TRUE, value |-> FloatNaN]
    ELSE ParseFraction(negative, u, DigitRunEnd(u, 1))

ParseSigned(t) ==
    IF Len(t) > 0 /\ t[1] \in {"+", "-"}
    THEN ParseUnsigned(t[1] = "-", Tail(t))
    ELSE ParseUnsigned(FALSE, t)

\* float(s) of a string: [ok, value]; ok = FALSE is the ValueError. The
\* literal may be surrounded by whitespace and carry a sign, underscores
\* between digits, a fraction and an exponent.
ParseFloat(s) ==
    IF UnderscoresOk(FloatStrip(s))
    THEN ParseSigned(NoUnderscores(FloatStrip(s)))
    ELSE ParseFailed

_is_type_compatible(value, expected_type) ==
    CASE expected_type = TypeNone -> TRUE
      [] expected_type = "string" -> value.k = "str"
      [] expected_type = "number" -> value.k \in {"int", "float"}
      [] expected_type = "integer" -> value.k = "int"
      [] expected_type = "boolean" -> value.k = "bool"
      [] expected_type = "array" -> value.k = "list"
      [] expected_type = "object" -> value.k = "dict"
      [] OTHER -> TRUE

\* Lines 59-63: try: return float(value), True / except ValueError
CoerceNumber(value, parsed) ==
    IF parsed.ok THEN [value |-> PyFloat(parsed.value), ok |-> TRUE]
    ELSE [value |-> value, ok |-> FALSE]

\* An integer coercion that yields a float
CoerceIntegerAsFloat(value) ==
    [value |-> PyFloat(FloatOfLiteral(FALSE, Significant(value.s), 0)), ok |-> TRUE]

\* Lines 64-65: int(value) of a string of digits
\* (an int of ten digits or more is kept as its decimal digits, the first
\* not 0)
CoerceInteger(value) ==
    [value |-> IF Len(Significant(value.s)) > 9
               THEN V("int", Significant(value.s), 0, FALSE)
               ELSE PyInt(ParseDigits(Significant(value.s))),
     ok |-> TRUE]

\* Line 65 raises ValueError: isdigit() holds of a string int() rejects or
\* does not convert
_coerce_argument_raises(value, expected_type) ==
    /\ ~_is_type_compatible(value, expected_type)
    /\ expected_type = "integer"
    /\ value.k = "str"
    /\ IsDigitStr(value.s)
    /\ IntRaises(value.s)

\* Lines 66-72: lower = value.strip().lower()
CoerceBoolean(value, lower) ==
    IF lower \in { <<"t","r","u","e">>, <<"y","e","s">>, <<"1">> }
    THEN [value |-> PyBool(TRUE), ok |-> TRUE]
    ELSE IF lower \in { <<"f","a","l","s","e">>, <<"n","o">>, <<"0">> }
    THEN [value |-> PyBool(FALSE), ok |-> TRUE]
    ELSE [value |-> value, ok |-> FALSE]

\* [value, ok]; where int() raises, _coerce_argument_raises holds and there is
\* no result
_coerce_argument(value, expected_type) ==
    IF _is_type_compatible(value, expected_type)
    THEN [value |-> value, ok |-> TRUE]
    ELSE IF expected_type = "number" /\ value.k = "str"
    THEN CoerceNumber(value, ParseFloat(value.s))
    ELSE IF expected_type = "integer" /\ value.k = "str" /\ IsDigitStr(value.s)
            /\ ~IntRaises(value.s)
    THEN CoerceInteger(value)
    ELSE IF expected_type = "boolean" /\ value.k = "str"
    THEN CoerceBoolean(value, Lower(Strip(value.s)))
    ELSE [value |-> value, ok |-> FALSE]

\* ------------------------------------------------------------------------
\* Tool catalog, calls, normalisation and validation
\* ------------------------------------------------------------------------
\* A tool descriptor is [isdict, function]; its "function" entry is
\* [kind, hasname, name, parameters] with kind "dict", "absent" or "other" (a
\* value that is no mapping); "parameters" is [kind, properties, required],
\* "properties" is [kind, map] (map: argument name -> schema [isdict, type])
\* and "required" is [kind, list], kind "list", "absent" or "other".
\* A call is [isdict, hasname, name, arguments]; "arguments" is [kind, items],
\* items the (key, value) pairs of the mapping in insertion order.

EmptyMap == [x \in {} |-> TRUE]

Schema(type) == [isdict |-> TRUE, type |-> type]

Tool(name, properties, required) ==
    [isdict |-> TRUE,
     function |->
        [kind |-> "dict", hasname |-> TRUE, name |-> name,
         parameters |->
            [kind |-> "dict",
             properties |-> [kind |-> "dict", map |-> properties],
             required |-> [kind |-> "list", list |-> required]]]]

Arg(key, value) == [key |-> key, value |-> value]

Call(name, items) ==
    [isdict |-> TRUE, hasname |-> TRUE, name |-> name,
     arguments |-> [kind |-> "dict", items |-> items]]

\* The _ToolSpec of a descriptor whose "function" entry is the mapping fn
\* (fn.get / params.get with their defaults, lines 25-34)
ToolSpecOf(fn) ==
    [name |-> fn.name,
     properties |-> IF fn.parameters.kind = "dict"
                       /\ fn.parameters.properties.kind = "dict"
                    THEN fn.parameters.properties.map ELSE EmptyMap,
     required |-> IF fn.parameters.kind = "dict"
                     /\ fn.parameters.required.kind = "list"
                  THEN fn.parameters.required.list ELSE <<>>]

\* name is truthy: the descriptor is indexed
ToolNamed(tool) ==
    /\ tool.isdict
    /\ tool.function.kind = "dict"
    /\ tool.function.hasname
    /\ tool.function.name # ""

\* fn.get on a "function" entry that is not a mapping: AttributeError
_tool_index_raises(tools) ==
    \E i \in DOMAIN tools : tools[i].isdict /\ tools[i].function.kind = "other"

_tool_index(tools) ==
    LET F[i \in 0..Len(tools)] ==
            IF i = 0 THEN EmptyMap
            ELSE IF ToolNamed(tools[i])
            THEN (tools[i].function.name :> ToolSpecOf(tools[i].function))
                 @@ F[i - 1]
            ELSE F[i - 1]
    IN  F[Len(tools)]

\* index.get(name): is the call's tool in the index
Known(index, call) == call.hasname /\ call.name \in DOMAIN index

\* args = call.get("arguments", {}); if not isinstance(args, dict): args = {}
ArgsOf(call) == IF call.arguments.kind = "dict" THEN call.arguments.items ELSE <<>>

ArgKeys(items) == {items[i].key : i \in DOMAIN items}

\* The expected type of argument key under a tool's properties
ExpectedType(spec, key) ==
    IF key \in DOMAIN spec.properties /\ spec.properties[key].isdict
    THEN spec.properties[key].type
    ELSE TypeNone

\* call.get on a call that is not a mapping: AttributeError
CallsRaise(function_calls) ==
    \E i \in DOMAIN function_calls : ~function_calls[i].isdict

\* _coerce_argument raises on an argument of a call of a known tool
CoercionRaises(index, function_calls) ==
    \E i \in DOMAIN function_calls :
        /\ function_calls[i].isdict
        /\ Known(index, function_calls[i])
        /\ \E a \in Range(ArgsOf(function_calls[i])) :
               _coerce_argument_raises(
                   a.value, ExpectedType(index[function_calls[i].name], a.key))

_normalize_calls_raises(function_calls, tools) ==
    \/ _tool_index_raises(tools)
    \/ CallsRaise(function_calls)
    \/ CoercionRaises(_tool_index(tools), function_calls)

\* Lines 86-92: next_args of a call of a known tool
NormalizeArgs(spec, args) ==
    [i \in DOMAIN args |->
        Arg(args[i].key,
            _coerce_argument(args[i].value, ExpectedType(spec, args[i].key)).value)]

NormalizedCall(call, items) ==
    [isdict |-> TRUE, hasname |-> call.hasname, name |-> call.name,
     arguments |-> [kind |-> "dict", items |-> items]]

NormalizeCall(index, call) ==
    IF Known(index, call)
    THEN NormalizedCall(call, NormalizeArgs(index[call.name], ArgsOf(call)))
    ELSE NormalizedCall(call, ArgsOf(call))

NormalizeCalls(index, function_calls) ==
    [i \in DOMAIN function_calls |-> NormalizeCall(index, function_calls[i])]

_normalize_calls(function_calls, tools) ==
    NormalizeCalls(_tool_index(tools), function_calls)

_validate_calls_raises(function_calls, tools) ==
    \/ _tool_index_raises(tools)
    \/ CallsRaise(function_calls)
    \/ CoercionRaises(_tool_index(tools), function_calls)

\* str(name)
StrOfName(call) == IF call.hasname THEN call.name ELSE "None"

\* Lines 116-118
MissingRequired(name, missing) ==
    IF Len(missing) > 0 THEN <<[tool |-> name, missing |-> missing]>> ELSE <<>>

\* Lines 120-132, bad: the arguments whose coercion fails
ArgTypeIssues(spec, name, bad) ==
    [i \in DOMAIN bad |->
        [tool |-> name,
         argument |-> bad[i].key,
         expected_type |-> ExpectedType(spec, bad[i].key),
         actual_type |-> TypeName(bad[i].value)]]

KnownCallIssues(spec, name, args) ==
    [unknown_tool |-> <<>>,
     missing_required |->
        MissingRequired(name,
            SelectSeq(spec.required, LAMBDA key : key \notin ArgKeys(args))),
     arg_type_issues |->
        ArgTypeIssues(spec, name,
            SelectSeq(args,
                LAMBDA a : ~_coerce_argument(a.value,
                                             ExpectedType(spec, a.key)).ok))]

\* The entries one call adds to the three issue lists (lines 106-132)
CallIssues(index, call) ==
    IF ~Known(index, call)
    THEN [unknown_tool |-> <<StrOfName(call)>>,
          missing_required |-> <<>>,
          arg_type_issues |-> <<>>]
    ELSE KnownCallIssues(index[call.name], call.name, ArgsOf(call))

\* Lines 134-140
ValidationResult(unknown_tool, missing_required, arg_type_issues) ==
    [valid |-> /\ Len(unknown_tool) = 0
               /\ Len(missing_required) = 0
               /\ Len(arg_type_issues) = 0,
     missing_required |-> missing_required,
     unknown_tool |-> unknown_tool,
     arg_type_issues |-> arg_type_issues]

ValidationOf(issues) ==
    ValidationResult(
        Concat([i \in DOMAIN issues |-> issues[i].unknown_tool]),
        Concat([i \in DOMAIN issues |-> issues[i].missing_required]),
        Concat([i \in DOMAIN issues |-> issues[i].arg_type_issues]))

\* A validation that stops at the first call of an unknown tool
ValidateCallsToUnknown(index, function_calls) ==
    ValidationOf(
        [i \in {j \in DOMAIN function_calls :
                   \A k \in 1..(j - 1) : Known(index, function_calls[k])}
            |-> CallIssues(index, function_calls[i])])

ValidateCalls(index, function_calls) ==
    ValidationOf([i \in DOMAIN function_calls |->
                     CallIssues(index, function_calls[i])])

_validate_calls(function_calls, tools) ==
    ValidateCalls(_tool_index(tools), function_calls)

\* ------------------------------------------------------------------------
\* Fallback policy, planners and candidate score
\* ------------------------------------------------------------------------

\* Lines 200-204
HighRisk(payment_context) ==
    \/ FloatGE(Get(payment_context, "amount", FloatZero(FALSE)), Milli(500000))
    \/ Get(payment_context, "new_payee", FALSE)
    \/ Get(payment_context, "first_time_payee", FALSE)
    \/ ~Get(payment_context, "biometric_strong", TRUE)

\* A fallback policy whose floor for a payment that is not risky is 0.95
_needs_cloud_fallback_low_floor(local_result, validation, complexity, ctx) ==
    IF ~validation.valid THEN TRUE
    ELSE IF complexity.label = "multi_intent"
            /\ Len(local_result.function_calls) < 2
    THEN TRUE
    ELSE FloatLess(local_result.confidence,
                   IF HighRisk(ctx) THEN Milli(995) ELSE Milli(950))

\* A fallback policy with the floor 0.96 whatever the risk
_needs_cloud_fallback_flat(local_result, validation, complexity, ctx) ==
    IF ~validation.valid THEN TRUE
    ELSE IF complexity.label = "multi_intent"
            /\ Len(local_result.function_calls) < 2
    THEN TRUE
    ELSE FloatLess(local_result.confidence, Milli(960))

\* A fallback policy that asks less confidence of a risky payment
_needs_cloud_fallback_lenient(local_result, validation, complexity, ctx) ==
    IF ~validation.valid THEN TRUE
    ELSE IF complexity.label = "multi_intent"
            /\ Len(local_result.function_calls) < 2
    THEN TRUE
    ELSE FloatLess(local_result.confidence,
                   IF HighRisk(ctx) THEN Milli(900) ELSE Milli(960))

_needs_cloud_fallback(local_result, validation, complexity, payment_context) ==
    IF ~validation.valid THEN TRUE
    ELSE IF complexity.label = "multi_intent"
            /\ Len(local_result.function_calls) < 2
    THEN TRUE
    ELSE FloatLess(local_result.confidence,
                   IF HighRisk(payment_context) THEN Milli(995) ELSE Milli(960))

usd == <<"u","s","d">>

PaymentToolNames ==
    {"resolve_payee", "risk_assess_transaction", "create_payment_intent",
     "confirm_payment"}

\* tools[0].get(...) on a first descriptor that is not a mapping (line 254),
\* reached when none of the four payment tools is in the index
_heuristic_local_calls_raises(messages, tools) ==
    \/ _tool_index_raises(tools)
    \/ /\ DOMAIN _tool_index(tools) \cap PaymentToolNames = {}
       /\ Len(tools) > 0
       /\ ~tools[1].isdict

\* Lines 230-251: the calls for the payment tools among names
HeuristicCalls(names, amount, payee) ==
    (IF "resolve_payee" \in names
     THEN <<Call("resolve_payee", <<Arg("payee_name", payee)>>)>> ELSE <<>>)
    \o (IF "risk_assess_transaction" \in names
        THEN <<Call("risk_assess_transaction",
                    <<Arg("amount", amount), Arg("payee", payee)>>)>>
        ELSE <<>>)
    \o (IF "create_payment_intent" \in names
        THEN <<Call("create_payment_intent",
                    <<Arg("amount", amount), Arg("currency", PyStr(usd)),
                      Arg("payee", payee)>>)>>
        ELSE <<>>)
    \o (IF "confirm_payment" \in names
        THEN <<Call("confirm_payment", <<Arg("confirm", PyBool(TRUE))>>)>>
        ELSE <<>>)

\* Lines 253-256: tools[0].get("function", {}).get("name") is truthy
HasFirstName(tools) == Len(tools) > 0 /\ ToolNamed(tools[1])

FirstToolCall(calls, tools) ==
    IF Len(calls) = 0 /\ HasFirstName(tools)
    THEN <<Call(tools[1].function.name, <<>>)>>
    ELSE calls

\* score -= amount under a condition
Deduct(score, cond, amount) == IF cond THEN FloatSub(score, amount) ELSE score

\* Lines 258-265
HeuristicConfidence(text, repair_mode) ==
    FloatMax(Milli(0), FloatMin(Milli(999),
        Deduct(Deduct(IF repair_mode THEN Milli(965) ELSE Milli(930),
                      Contains(text, <<"?">>), Milli(40)),
               Contains(Lower(text), <<"a","n","d">>), Milli(30))))

HeuristicPlan(text, names, payload, tools, repair_mode) ==
    [function_calls |->
        FirstToolCall(
            HeuristicCalls(names, PyFloat(payload.amount), PyStr(payload.payee)),
            tools),
     confidence |-> HeuristicConfidence(text, repair_mode)]

HeuristicOfText(text, tools, repair_mode) ==
    HeuristicPlan(text, DOMAIN _tool_index(tools), _extract_simple_payment(text),
                  tools, repair_mode)

_heuristic_local_calls(messages, tools, repair_mode) ==
    HeuristicOfText(UserText(messages), tools, repair_mode)

_call_local_planner(messages, tools, tool_rag_top_k, repair_mode) ==
    _heuristic_local_calls(messages, tools, repair_mode)

\* Lines 292-293
CloudDefault(h) ==
    [function_calls |-> h.function_calls,
     confidence |-> FloatMax(Milli(990), h.confidence)]

\* The VOICEPAY_CLOUD_JSON environment variable is [kind, function_calls,
\* confidence]: kind "unset" (absent or empty), "malformed" (json.loads or
\* float() raises, or the document is no object with a function_calls list)
\* or "override".
_call_cloud_planner(messages, tools, environ) ==
    IF environ.kind = "override"
    THEN [function_calls |-> environ.function_calls,
          confidence |-> environ.confidence]
    ELSE CloudDefault(_heuristic_local_calls(messages, tools, TRUE))

\* Lines 297-304, in the order of the source: each step rounds
_candidate_score(validation, confidence, complexity) ==
    Deduct(
        FloatSub(
            FloatSub(
                IF validation.valid THEN FloatAdd(confidence, Milli(200))
                ELSE confidence,
                FloatTimes(Milli(80), Len(validation.missing_required))),
            FloatTimes(Milli(50), Len(validation.arg_type_issues))),
        complexity.label = "multi_intent", Milli(30))

\* ------------------------------------------------------------------------
\* The default catalog of the service and the inputs of the model
\* ------------------------------------------------------------------------

PAYMENT_TOOLS ==
    << Tool("resolve_payee",
            [payee_name |-> Schema("string")], <<"payee_name">>),
       Tool("verify_voice_match",
            [speaker_id |-> Schema("string"), confidence |-> Schema("number")],
            <<"speaker_id">>),
       Tool("check_biometric_status",
            [biometric_ok |-> Schema("boolean")], <<"biometric_ok">>),
       Tool("risk_assess_transaction",
            [amount |-> Schema("number"), payee |-> Schema("string"),
             biometric_ok |-> Schema("boolean")],
            <<"amount", "payee">>),
       Tool("create_payment_intent",
            [amount |-> Schema("number"), currency |-> Schema("string"),
             payee |-> Schema("string")],
            <<"amount", "currency", "payee">>),
       Tool("confirm_payment",
            [confirm |-> Schema("boolean")], <<"confirm">>),
       Tool("charge_payment_testmode",
            [amount |-> Schema("number"), currency |-> Schema("string"),
             payment_method_id |-> Schema("string")],
            <<"amount", "currency">>) >>

\* Bounds of the model
MaxRuns == 2

MaxCalls == 2

MaxStrLen == 2

\* user: "send $20 to Alice"
MsgAlice ==
    << [role |-> "user", content |->
          <<"s","e","n","d"," ","$","2","0"," ","t","o"," ","A","l","i","c","e">>] >>

\* user: "send $750 to a new payee"
MsgNewPayee ==
    << [role |-> "user", content |->
          <<"s","e","n","d"," ","$","7","5","0"," ","t","o"," ","a"," ","n","e","w"," ","p","a","y","e","e">>] >>

\* user: "first pay rent and then also send $20 to Bob"
MsgRentBob ==
    << [role |-> "user", content |->
          <<"f","i","r","s","t"," ","p","a","y"," ","r","e","n","t"," ","a","n","d"," ","t","h","e","n"," ","a","l","s","o"," ","s","e","n","d"," ","$","2","0"," ","t","o"," ","B","o","b">>] >>

\* user: "send $499.99 to Sandy?"
MsgSandy ==
    << [role |-> "user", content |->
          <<"s","e","n","d"," ","$","4","9","9",".","9","9"," ","t","o"," ","S","a","n","d","y","?">>] >>

\* user: "pay Bob $500 first time"
MsgFirstTime ==
    << [role |-> "user", content |->
          <<"p","a","y"," ","B","o","b"," ","$","5","0","0"," ","f","i","r","s","t"," ","t","i","m","e">>] >>

\* user: "pay Ann, Bob; send $5"
MsgList ==
    << [role |-> "user", content |->
          <<"p","a","y"," ","A","n","n",","," ","B","o","b",";"," ","s","e","n","d"," ","$","5">>] >>

\* user: "send $20 to Alice" | assistant: "and then? $900" | user: "also 30 dollars to Bob"
MsgDialog ==
    << [role |-> "user", content |->
          <<"s","e","n","d"," ","$","2","0"," ","t","o"," ","A","l","i","c","e">>],
       [role |-> "assistant", content |->
          <<"a","n","d"," ","t","h","e","n","?"," ","$","9","0","0">>],
       [role |-> "user", content |->
          <<"a","l","s","o"," ","3","0"," ","d","o","l","l","a","r","s"," ","t","o"," ","B","o","b">>] >>

\* user: "pay Bob"
MsgNoAmount ==
    << [role |-> "user", content |->
          <<"p","a","y"," ","B","o","b">>] >>

\* user: "pay $\t12.3456\nto\tBob and Al"
MsgTabbed ==
    << [role |-> "user", content |->
          <<"p","a","y"," ","$","\t","1","2",".","3","4","5","6","\n","t","o","\t","B","o","b"," ","a","n","d"," ","A","l">>] >>

Messages ==
    {MsgAlice, MsgNewPayee, MsgRentBob, MsgSandy, MsgFirstTime, MsgList,
     MsgDialog, MsgNoAmount, MsgTabbed}

\* Malformed descriptors: a descriptor that is no mapping, and a mapping whose
\* "function" entry is no mapping
NotADict == [Tool("x", EmptyMap, <<>>) EXCEPT !.isdict = FALSE]

FnNotDict == [Tool("x", EmptyMap, <<>>) EXCEPT !.function.kind = "other"]

\* resolve_payee with "parameters" that is no mapping
ParamsNotDict ==
    [Tool("resolve_payee", [payee_name |-> Schema("string")], <<"payee_name">>)
        EXCEPT !.function.parameters.kind = "other"]

\* create_payment_intent whose amount is declared a string
IntentAmountString ==
    Tool("create_payment_intent",
         [amount |-> Schema("string"), currency |-> Schema("string"),
          payee |-> Schema("string")],
         <<"amount", "currency", "payee">>)

Catalogs ==
    { PAYMENT_TOOLS,
      <<>>,
      <<PAYMENT_TOOLS[1]>>,
      <<IntentAmountString, PAYMENT_TOOLS[6]>>,
      <<PAYMENT_TOOLS[2]>>,
      <<NotADict>>,
      <<PAYMENT_TOOLS[1], FnNotDict>>,
      <<NotADict, ParamsNotDict, PAYMENT_TOOLS[6]>> }

\* confidence_threshold: 0.5, 0.97, 0.99 (the default), nan
Thresholds == {Milli(500), Milli(970), Milli(990), FloatNaN}

Alice == <<"A","l","i","c","e">>

EnvUnset ==
    [kind |-> "unset", function_calls |-> <<>>, confidence |-> FloatZero(FALSE)]

EnvMalformed ==
    [kind |-> "malformed", function_calls |-> <<>>,
     confidence |-> FloatZero(FALSE)]

\* '{"function_calls": [], "confidence": 0.5}'
EnvEmptyPlan ==
    [kind |-> "override", function_calls |-> <<>>, confidence |-> Milli(500)]

\* '{"function_calls": [{"name": "refund", "arguments": {}}], "confidence": 1.5}'
EnvRefund ==
    [kind |-> "override",
     function_calls |-> <<Call("refund", <<>>)>>,
     confidence |-> Milli(1500)]

\* A call entry that is no mapping
NotACall == [Call("", <<>>) EXCEPT !.isdict = FALSE, !.hasname = FALSE]

\* '{"function_calls": ["junk"], "confidence": 0.99}'
EnvJunkCall ==
    [kind |-> "override", function_calls |-> <<NotACall>>,
     confidence |-> Milli(990)]

Environs == {EnvUnset, EnvMalformed, EnvEmptyPlan, EnvRefund, EnvJunkCall}

\* ------------------------------------------------------------------------
\* generate_hybrid as a state machine
\* ------------------------------------------------------------------------
\* pc: "Start" -> "Pass1Evaluated" (pass 1 rejected) -> "Pass2Evaluated"
\* (pass 2 rejected) -> "Terminal"; an accepted pass goes to "Terminal" at
\* once; "Raised": an exception left generate_hybrid.

VARIABLES
    messages, tools, confidence_threshold,  \* the arguments of generate_hybrid
    environ,                \* VOICEPAY_CLOUD_JSON as the cloud planner read it
    pc,
    payment_context, complexity,
    local_a, validation_a, fallback_a,
    local_b, validation_b, fallback_b,
    best,                   \* the candidate pass 2 selected: "a", "b" or "none"
    result,                 \* the returned mapping (latency fields left out)
    invoked,                \* the planners invoked so far, in order
    plans,                  \* what each of them returned, before normalization
    results,                \* the outcomes of the earlier runs on these arguments
    fn_pc, fn_in, fn_out    \* a function run on its own: step, input, outputs

routeVars ==
    <<messages, tools, confidence_threshold, environ, pc, payment_context,
      complexity, local_a, validation_a, fallback_a, local_b, validation_b,
      fallback_b, best, result, invoked, plans, results>>

fnVars == <<fn_pc, fn_in, fn_out>>

vars == <<routeVars, fnVars>>

NoValidation ==
    [valid |-> FALSE, missing_required |-> <<>>, unknown_tool |-> <<>>,
     arg_type_issues |-> <<>>]

NoLocal == [function_calls |-> <<>>, confidence |-> FloatZero(FALSE)]

NoComplexity == [label |-> "", signal_hits |-> 0, punctuation_hits |-> 0]

NoResult ==
    [source |-> "", route_reason |-> "", function_calls |-> <<>>,
     confidence |-> FloatZero(FALSE), validation |-> NoValidation]

\* The state of a run before its first step
RunStart ==
    /\ pc = "Start"
    /\ environ = EnvUnset
    /\ payment_context = EmptyMap
    /\ complexity = NoComplexity
    /\ local_a = NoLocal /\ validation_a = NoValidation /\ fallback_a = FALSE
    /\ local_b = NoLocal /\ validation_b = NoValidation /\ fallback_b = FALSE
    /\ best = "none"
    /\ result = NoResult
    /\ invoked = <<>>
    /\ plans = <<>>

FnIdle == fn_pc = "idle" /\ fn_in = <<>> /\ fn_out = <<>>

Result(source, route_reason, local, validation) ==
    [source |-> source,
     route_reason |-> route_reason,
     function_calls |-> local.function_calls,
     confidence |-> local.confidence,
     validation |-> validation]

\* Line 317
threshold_a(ct) == FloatMax(ct, Milli(960))

\* A pass-2 threshold that is the floor 0.95 whatever the caller's threshold
threshold_b_floor(ct) == Milli(950)

\* Line 337
threshold_b(ct) == FloatMax(FloatSub(ct, Milli(20)), Milli(950))

\* Lines 316-330: the fallback decision and the acceptance test of pass 1
Pass1Decide(local, validation, ctx, cx, fallback, raises) ==
    /\ pc = "Start"
    /\ invoked' = Append(invoked, "local")
    /\ IF raises
       THEN /\ pc' = "Raised"
            /\ UNCHANGED <<payment_context, complexity, local_a, validation_a,
                           fallback_a, result>>
       ELSE /\ payment_context' = ctx
            /\ complexity' = cx
            /\ local_a' = local
            /\ validation_a' = validation
            /\ fallback_a' = fallback
            /\ IF ~fallback
                  /\ FloatGE(local.confidence, threshold_a(confidence_threshold))
               THEN /\ pc' = "Terminal"
                    /\ result' = Result("on-device", "pass1-accepted", local,
                                        validation)
               ELSE /\ pc' = "Pass1Evaluated"
                    /\ UNCHANGED result
    /\ UNCHANGED <<messages, tools, confidence_threshold, environ, local_b,
                   validation_b, fallback_b, best, results, fnVars>>

Pass1Evaluate(local, validation, ctx, cx, raises) ==
    Pass1Decide(local, validation, ctx, cx,
                _needs_cloud_fallback(local, validation, cx, ctx), raises)

Pass1Validate(calls, confidence, raises) ==
    Pass1Evaluate([function_calls |-> calls, confidence |-> confidence],
                  _validate_calls(calls, tools),
                  _extract_payment_context(messages, EmptyMap),
                  _estimate_complexity(messages),
                  raises)

\* Lines 309-330: context, complexity and pass 1 on the planner's output
\* (planner_raises: the planner itself raised)
Pass1With(out, planner_raises) ==
    /\ Pass1Validate(_normalize_calls(out.function_calls, tools),
                     out.confidence,
                     planner_raises
                     \/ _normalize_calls_raises(out.function_calls, tools))
    /\ plans' = IF planner_raises THEN plans ELSE Append(plans, out)

\* An acceptance test of pass 2 that does not read the fallback flag
Pass2SelectUnflagged(local, validation, fallback, b_is_best, raises) ==
    /\ pc = "Pass1Evaluated"
    /\ invoked' = Append(invoked, "local")
    /\ IF raises
       THEN /\ pc' = "Raised"
            /\ UNCHANGED <<local_b, validation_b, fallback_b, best, result>>
       ELSE /\ local_b' = local
            /\ validation_b' = validation
            /\ fallback_b' = fallback
            /\ best' = IF b_is_best THEN "b" ELSE "a"
            /\ IF /\ FloatGE((IF b_is_best THEN local ELSE local_a).confidence,
                             threshold_b(confidence_threshold))
                  /\ (IF b_is_best THEN validation ELSE validation_a).valid
               THEN /\ pc' = "Terminal"
                    /\ result' = Result("on-device", "pass2-repair-accepted",
                                        IF b_is_best THEN local ELSE local_a,
                                        IF b_is_best THEN validation
                                        ELSE validation_a)
               ELSE /\ pc' = "Pass2Evaluated"
                    /\ UNCHANGED result
    /\ UNCHANGED <<messages, tools, confidence_threshold, environ,
                   payment_context, complexity, local_a, validation_a,
                   fallback_a, results, fnVars>>

\* An acceptance test of pass 2 that reads "not fallback and confidence >=
\* threshold or valid"
Pass2SelectLoose(local, validation, fallback, b_is_best, raises) ==
    /\ pc = "Pass1Evaluated"
    /\ invoked' = Append(invoked, "local")
    /\ IF raises
       THEN /\ pc' = "Raised"
            /\ UNCHANGED <<local_b, validation_b, fallback_b, best, result>>
       ELSE /\ local_b' = local
            /\ validation_b' = validation
            /\ fallback_b' = fallback
            /\ best' = IF b_is_best THEN "b" ELSE "a"
            /\ IF \/ /\ ~fallback
                     /\ FloatGE((IF b_is_best THEN local ELSE local_a).confidence,
                                threshold_b(confidence_threshold))
                  \/ (IF b_is_best THEN validation ELSE validation_a).valid
               THEN /\ pc' = "Terminal"
                    /\ result' = Result("on-device", "pass2-repair-accepted",
                                        IF b_is_best THEN local ELSE local_a,
                                        IF b_is_best THEN validation
                                        ELSE validation_a)
               ELSE /\ pc' = "Pass2Evaluated"
                    /\ UNCHANGED result
    /\ UNCHANGED <<messages, tools, confidence_threshold, environ,
                   payment_context, complexity, local_a, validation_a,
                   fallback_a, results, fnVars>>

\* Lines 341-355: the selection of the best candidate and the acceptance test
Pass2Select(local, validation, fallback, b_is_best, raises) ==
    /\ pc = "Pass1Evaluated"
    /\ invoked' = Append(invoked, "local")
    /\ IF raises
       THEN /\ pc' = "Raised"
            /\ UNCHANGED <<local_b, validation_b, fallback_b, best, result>>
       ELSE /\ local_b' = local
            /\ validation_b' = validation
            /\ fallback_b' = fallback
            /\ best' = IF b_is_best THEN "b" ELSE "a"
            /\ IF /\ ~fallback
                  /\ FloatGE((IF b_is_best THEN local ELSE local_a).confidence,
                             threshold_b(confidence_threshold))
                  /\ (IF b_is_best THEN validation ELSE validation_a).valid
               THEN /\ pc' = "Terminal"
                    /\ result' = Result("on-device", "pass2-repair-accepted",
                                        IF b_is_best THEN local ELSE local_a,
                                        IF b_is_best THEN validation
                                        ELSE validation_a)
               ELSE /\ pc' = "Pass2Evaluated"
                    /\ UNCHANGED result
    /\ UNCHANGED <<messages, tools, confidence_threshold, environ,
                   payment_context, complexity, local_a, validation_a,
                   fallback_a, results, fnVars>>

\* Pass 2 with the two scores swapped: score_a >= score_b selects pass 2
Pass2EvaluateSwapped(local, validation, raises) ==
    Pass2Select(local, validation,
                _needs_cloud_fallback(local, validation, complexity,
                                      payment_context),
                FloatGE(
                    _candidate_score(validation_a, local_a.confidence, complexity),
                    _candidate_score(validation, local.confidence, complexity)),
                raises)

\* Lines 336-342: fallback_b and score_b >= score_a
Pass2Evaluate(local, validation, raises) ==
    Pass2Select(local, validation,
                _needs_cloud_fallback(local, validation, complexity,
                                      payment_context),
                FloatGE(
                    _candidate_score(validation, local.confidence, complexity),
                    _candidate_score(validation_a, local_a.confidence, complexity)),
                raises)

Pass2Validate(calls, confidence, raises) ==
    Pass2Evaluate([function_calls |-> calls, confidence |-> confidence],
                  _validate_calls(calls, tools), raises)

\* Lines 332-355: pass 2 (repair) on the planner's output
Pass2With(out, planner_raises) ==
    /\ Pass2Validate(_normalize_calls(out.function_calls, tools),
                     out.confidence,
                     planner_raises
                     \/ _normalize_calls_raises(out.function_calls, tools))
    /\ plans' = IF planner_raises THEN plans ELSE Append(plans, out)

\* Pass 1 with the local planner of the source
Pass1 ==
    Pass1With(_call_local_planner(messages, tools, 2, FALSE),
              _heuristic_local_calls_raises(messages, tools))

\* Pass 2 with the local planner of the source
Pass2 ==
    Pass2With(_call_local_planner(messages, tools, 0, TRUE),
              _heuristic_local_calls_raises(messages, tools))

\* A cloud step that asks the cloud planner again when its plan is invalid
CloudReturnRetry(e, calls, confidence, raises) ==
    /\ pc = "Pass2Evaluated"
    /\ environ' = e
    /\ invoked' = Append(invoked, "cloud")
    /\ IF raises
       THEN pc' = "Raised" /\ UNCHANGED result
       ELSE IF ~_validate_calls(calls, tools).valid
       THEN pc' = "Pass2Evaluated" /\ UNCHANGED result
       ELSE /\ pc' = "Terminal"
            /\ result' = Result("cloud (fallback)", "local-uncertain-or-invalid",
                                [function_calls |-> calls,
                                 confidence |-> confidence],
                                _validate_calls(calls, tools))
    /\ UNCHANGED <<messages, tools, confidence_threshold, payment_context,
                   complexity, local_a, validation_a, fallback_a, local_b,
                   validation_b, fallback_b, best, results, fnVars>>

\* Lines 359-371: the cloud result is final
CloudReturn(e, calls, confidence, raises) ==
    /\ pc = "Pass2Evaluated"
    /\ environ' = e
    /\ invoked' = Append(invoked, "cloud")
    /\ IF raises
       THEN pc' = "Raised" /\ UNCHANGED result
       ELSE /\ pc' = "Terminal"
            /\ result' = Result("cloud (fallback)", "local-uncertain-or-invalid",
                                [function_calls |-> calls,
                                 confidence |-> confidence],
                                _validate_calls(calls, tools))
    /\ UNCHANGED <<messages, tools, confidence_threshold, payment_context,
                   complexity, local_a, validation_a, fallback_a, local_b,
                   validation_b, fallback_b, best, results, fnVars>>

CloudWith(e, cloud) ==
    /\ CloudReturn(e, _normalize_calls(cloud.function_calls, tools),
                   cloud.confidence,
                   \/ (e.kind # "override"
                       /\ _heuristic_local_calls_raises(messages, tools))
                   \/ _normalize_calls_raises(cloud.function_calls, tools))
    /\ plans' = IF e.kind # "override"
                    /\ _heuristic_local_calls_raises(messages, tools)
                 THEN plans ELSE Append(plans, cloud)

\* Lines 357-371: the cloud planner, whose result is final. The cloud planner
\* reads the process environment when it is called: e is what it finds.
CloudFallback ==
    \E e \in Environs : CloudWith(e, _call_cloud_planner(messages, tools, e))

\* generate_hybrid is called again with the same arguments
Rerun ==
    /\ pc \in {"Terminal", "Raised"}
    /\ Len(results) + 1 < MaxRuns
    /\ results' = Append(results, [raised |-> pc = "Raised", result |-> result])
    /\ pc' = "Start"
    /\ environ' = EnvUnset
    /\ payment_context' = EmptyMap
    /\ complexity' = NoComplexity
    /\ local_a' = NoLocal /\ validation_a' = NoValidation /\ fallback_a' = FALSE
    /\ local_b' = NoLocal /\ validation_b' = NoValidation /\ fallback_b' = FALSE
    /\ best' = "none"
    /\ result' = NoResult
    /\ invoked' = <<>>
    /\ plans' = <<>>
    /\ UNCHANGED <<messages, tools, confidence_threshold, fnVars>>

Init ==
    /\ messages \in Messages
    /\ tools \in Catalogs
    /\ confidence_threshold \in Thresholds
    /\ RunStart
    /\ results = <<>>
    /\ FnIdle

Next == Pass1 \/ Pass2 \/ CloudFallback \/ Rerun

\* The service as the source has it: the heuristic local planner
Spec == Init /\ [][Next]_vars

\* ------------------------------------------------------------------------
\* Sample calls
\* ------------------------------------------------------------------------

\* create_payment_intent(amount=20.0, currency="usd", payee="Alice")
IntentAlice ==
    Call("create_payment_intent",
         <<Arg("amount", PyFloat(Milli(20000))), Arg("currency", PyStr(usd)),
           Arg("payee", PyStr(Alice))>>)

\* confirm_payment(confirm="yes"): valid once the argument is coerced
ConfirmYes ==
    Call("confirm_payment", <<Arg("confirm", PyStr(<<"y","e","s">>))>>)

\* resolve_payee(): the required payee_name is missing
ResolveNobody == Call("resolve_payee", <<>>)

\* ------------------------------------------------------------------------
\* _coerce_argument, _normalize_calls and _validate_calls on their own
\* ------------------------------------------------------------------------
\* fn_pc is the step of the function that is run, fn_in its arguments and
\* fn_out the sequence of what its applications returned.

Alphabet == {"0", "1", ".", "-", " ", "n", "o"}

Strings(n) == UNION {[1..k -> Alphabet] : k \in 0..n}

WordSamples ==
    { <<"t","r","u","e">>, <<"T","r","u","e">>, <<" ","Y","E","S"," ">>,
      <<"f","a","l","s","e">>, <<"1","2",".","5">>, <<"-","0",".","2","5">>,
      <<"1",".","5","x">>, <<"0","0","7">>, <<"1","e","3">>,
      <<"-","1","E","-","3">>, <<"1","_","0","0","0">>, <<"1","_","_","0">>,
      <<"\t","7","\n">>, <<"\t","t","r","u","e">>, <<"i","n","f">>,
      <<"-","I","n","f","i","n","i","t","y">>, <<"n","a","n">>,
      <<"0",".","0","0","0","5">>, <<".","5">>, <<"5",".">>, <<"1","e">>,
      <<"1","e","4","0","0">>, <<"²">>, <<"1","²">>,
      <<"1","e","1","0","0","0","0","0">>,
      <<"0",".","0","0","1","e","0","0","0","0","0","0","3">>,
      <<"0","0","7">>, <<"1","2","3","4","5","6","7","8","9","0","1">>,
      [i \in 1..(IntMaxStrDigits + 1) |-> "1"] }

Values ==
    {PyStr(s) : s \in Strings(MaxStrLen) \cup WordSamples}
    \cup {PyInt(0), PyInt(5), PyFloat(Milli(2500)), PyFloat(FloatNaN), PyBool(TRUE), PyBool(FALSE),
          PyNone, PyList, PyDict}

Types ==
    {"string", "number", "integer", "boolean", "array", "object", "date",
     TypeNone}

\* refund(): no tool of any catalog
Refund == Call("refund", <<>>)

\* A call without a "name"
NoName == [Call("", <<Arg("amount", PyInt(5))>>) EXCEPT !.hasname = FALSE]

\* risk_assess_transaction(amount="no", payee=5, note=None)
BadTypes ==
    Call("risk_assess_transaction",
         <<Arg("amount", PyStr(<<"n","o">>)), Arg("payee", PyInt(5)),
           Arg("note", PyNone)>>)

\* resolve_payee with "arguments" that is no mapping
ArgsNotDict == [Call("resolve_payee", <<>>) EXCEPT !.arguments.kind = "other"]

CallSamples ==
    {IntentAlice, ConfirmYes, ResolveNobody, Refund, NoName, BadTypes,
     ArgsNotDict, NotACall}

CallLists == UNION {[1..k -> CallSamples] : k \in 0..MaxCalls}

\* confirm_payment with "properties" and "required" of the wrong shape
PropsNotDict ==
    [Tool("confirm_payment", EmptyMap, <<>>)
        EXCEPT !.function.parameters.properties.kind = "other",
               !.function.parameters.required.kind = "other"]

\* create_payment_intent with a schema that is no mapping, a schema without
\* a "type" and a required parameter that is no property
SchemaNotDict ==
    Tool("create_payment_intent",
         [amount |-> [isdict |-> FALSE, type |-> TypeNone],
          currency |-> Schema(TypeNone),
          payee |-> Schema("string")],
         <<"amount", "memo">>)

FnCatalogs ==
    { PAYMENT_TOOLS,
      <<NotADict, ParamsNotDict, PropsNotDict, SchemaNotDict>>,
      <<PAYMENT_TOOLS[4], FnNotDict>> }

\* generate_hybrid is not running
RouteIdle ==
    /\ messages = <<>>
    /\ tools = <<>>
    /\ confidence_threshold = Milli(990)
    /\ RunStart
    /\ results = <<>>

Coerce ==
    /\ fn_pc = "coerce"
    /\ IF _coerce_argument_raises(fn_in.value, fn_in.expected_type)
       THEN fn_pc' = "raised" /\ UNCHANGED fn_out
       ELSE /\ fn_pc' = "coerced"
            /\ fn_out' = <<_coerce_argument(fn_in.value, fn_in.expected_type)>>
    /\ UNCHANGED <<fn_in, routeVars>>

\* _coerce_argument on the value it returned
Recoerce ==
    /\ fn_pc = "coerced"
    /\ fn_out' = Append(fn_out,
                        _coerce_argument(fn_out[1].value, fn_in.expected_type))
    /\ fn_pc' = "recoerced"
    /\ UNCHANGED <<fn_in, routeVars>>

Normalize ==
    /\ fn_pc = "normalize"
    /\ IF _normalize_calls_raises(fn_in.function_calls, fn_in.tools)
       THEN fn_pc' = "raised" /\ UNCHANGED fn_out
       ELSE /\ fn_pc' = "normalized"
            /\ fn_out' = <<_normalize_calls(fn_in.function_calls, fn_in.tools)>>
    /\ UNCHANGED <<fn_in, routeVars>>

\* _normalize_calls on the call list it returned
Renormalize ==
    /\ fn_pc = "normalized"
    /\ fn_out' = Append(fn_out, _normalize_calls(fn_out[1], fn_in.tools))
    /\ fn_pc' = "renormalized"
    /\ UNCHANGED <<fn_in, routeVars>>

Validate ==
    /\ fn_pc = "validate"
    /\ IF _validate_calls_raises(fn_in.function_calls, fn_in.tools)
       THEN fn_pc' = "raised" /\ UNCHANGED fn_out
       ELSE /\ fn_pc' = "validated"
            /\ fn_out' = <<_validate_calls(fn_in.function_calls, fn_in.tools)>>
    /\ UNCHANGED <<fn_in, routeVars>>

InitCoerce ==
    /\ RouteIdle
    /\ fn_out = <<>>
    /\ \/ /\ fn_pc = "coerce"
          /\ fn_in \in [value : Values, expected_type : Types]
       \/ /\ fn_pc = "normalize"
          /\ fn_in \in [function_calls : CallLists, tools : FnCatalogs]

NextCoerce == Coerce \/ Recoerce \/ Normalize \/ Renormalize

SpecCoerce == InitCoerce /\ [][NextCoerce]_vars

InitValidate ==
    /\ RouteIdle
    /\ fn_out = <<>>
    /\ fn_pc = "validate"
    /\ fn_in \in [function_calls : CallLists, tools : FnCatalogs]

NextValidate == Validate

SpecValidate == InitValidate /\ [][NextValidate]_vars

\* ------------------------------------------------------------------------
\* Properties of the routing
\* ------------------------------------------------------------------------

\* Some call of calls has the argument key with the value value
HasArg(calls, key, value) ==
    \E i \in DOMAIN calls :
        \E j \in DOMAIN ArgsOf(calls[i]) : ArgsOf(calls[i])[j] = Arg(key, value)

\* "send $20 to Alice", the default catalog, confidence_threshold = 0.99
Scenario1 ==
    /\ messages = MsgAlice
    /\ tools = PAYMENT_TOOLS
    /\ confidence_threshold = Milli(990)

\* C1, as the specification states it: in scenario 1 pass 1 (confidence 0.93)
\* is rejected, the pass-2 repair candidate (confidence 0.965) is accepted and
\* the result is on-device, "pass2-repair-accepted", with payee "Alice" and
\* amount 20.0 in its calls.
C1_Scenario1OnDevice ==
    (Scenario1 /\ pc = "Terminal")
    => /\ local_a.confidence = Milli(930)
       /\ local_b.confidence = Milli(965)
       /\ result.source = "on-device"
       /\ result.route_reason = "pass2-repair-accepted"
       /\ HasArg(result.function_calls, "payee", PyStr(Alice))
       /\ HasArg(result.function_calls, "amount", PyFloat(Milli(20000)))

\* C1, amended: in scenario 1 pass 1 (confidence 0.93 < 0.99) is rejected and
\* so is the pass-2 repair candidate (confidence 0.965 < theta_b = 0.97); the
\* result comes from the cloud planner, "cloud (fallback)" with
\* "local-uncertain-or-invalid", and without a cloud override it has
\* confidence 0.99 and payee "Alice" and amount 20.0 in its calls.
C1_Scenario1Cloud ==
    (Scenario1 /\ pc \in {"Pass2Evaluated", "Terminal"})
    => /\ local_a.confidence = Milli(930)
       /\ local_b.confidence = Milli(965)
       /\ best = "b"
       /\ FloatLess(local_b.confidence, threshold_b(confidence_threshold))
       /\ pc = "Terminal"
          => /\ result.source = "cloud (fallback)"
             /\ result.route_reason = "local-uncertain-or-invalid"
             /\ environ.kind # "override"
                => /\ result.confidence = Milli(990)
                   /\ result.validation.valid
                   /\ HasArg(result.function_calls, "payee", PyStr(Alice))
                   /\ HasArg(result.function_calls, "amount", PyFloat(Milli(20000)))

C1_Witness ==
    /\ Scenario1
    /\ pc = "Terminal"
    /\ environ = EnvUnset
    /\ invoked = <<"local", "local", "cloud">>
    /\ HasArg(result.function_calls, "payee", PyStr(Alice))

\* The candidate pass 2 selected, its validation and its own fallback flag
best_local == IF best = "b" THEN local_b ELSE local_a

best_validation == IF best = "b" THEN validation_b ELSE validation_a

best_fallback == IF best = "b" THEN fallback_b ELSE fallback_a

\* C2: a result is accepted with "pass2-repair-accepted" only if the candidate
\* selected by score is itself valid, not flagged by the fallback policy (its
\* own flag) and has confidence >= theta_b.
C2_SelectedNotFlagged ==
    (pc = "Terminal" /\ result.route_reason = "pass2-repair-accepted")
    => /\ best_validation.valid
       /\ ~best_fallback
       /\ FloatGE(best_local.confidence, threshold_b(confidence_threshold))

\* An accepted pass-2 result whose selected candidate was flagged in pass 1
\* and is not flagged in pass 2
C2_Witness ==
    /\ pc = "Terminal"
    /\ result.route_reason = "pass2-repair-accepted"
    /\ best = "b"
    /\ fallback_a
    /\ ~fallback_b
    /\ validation_b.valid
    /\ result.function_calls = local_b.function_calls

\* C3: for a high-risk payment context no on-device result has a confidence
\* below 0.995, whatever the caller's threshold and the planner's outputs.
C3_HighRiskFloor ==
    (pc = "Terminal" /\ result.source = "on-device"
        /\ HighRisk(payment_context))
    => FloatGE(result.confidence, Milli(995))

\* "send $750 to a new payee" with confidence_threshold = 0.5: the pass-2
\* candidate is valid and reaches theta_b = 0.95, and is not accepted
C3_Witness ==
    /\ pc = "Terminal"
    /\ messages = MsgNewPayee
    /\ tools = PAYMENT_TOOLS
    /\ HighRisk(payment_context)
    /\ confidence_threshold = Milli(500)
    /\ validation_b.valid
    /\ local_b.confidence = Milli(965)
    /\ FloatGE(local_b.confidence, threshold_b(confidence_threshold))
    /\ fallback_b
    /\ result.source = "cloud (fallback)"

\* C4: the cloud planner is invoked at most once, only after pass 1 and then
\* pass 2 were evaluated and rejected; its normalized output is the final
\* result, "cloud (fallback)" with "local-uncertain-or-invalid", valid or not,
\* and no planner is invoked after it.
C4_CloudLastAndFinal ==
    /\ \E n \in 0..3 : invoked = SubSeq(<<"local", "local", "cloud">>, 1, n)
    /\ (pc = "Terminal" /\ result.source = "cloud (fallback)")
       => Len(invoked) = 3
    /\ Len(invoked) = 3
       => /\ pc \in {"Terminal", "Raised"}
          /\ \/ fallback_a
             \/ ~FloatGE(local_a.confidence, threshold_a(confidence_threshold))
          /\ best # "none"
          /\ \/ fallback_b
             \/ ~FloatGE(best_local.confidence, threshold_b(confidence_threshold))
             \/ ~best_validation.valid
          /\ pc = "Terminal"
             => /\ result.source = "cloud (fallback)"
                /\ result.route_reason = "local-uncertain-or-invalid"
                /\ result.function_calls
                     = _normalize_calls(plans[3].function_calls, tools)
                /\ result.confidence = plans[3].confidence
                /\ result.validation
                     = _validate_calls(result.function_calls, tools)

C4_Witness ==
    /\ pc = "Terminal"
    /\ invoked = <<"local", "local", "cloud">>
    /\ result.source = "cloud (fallback)"
    /\ ~result.validation.valid
    /\ validation_a.valid

\* C5: no exception leaves generate_hybrid, whatever malformed shapes the tool
\* catalog and the call lists contain.
C5_NoException == pc # "Raised"

\* C6: two runs of generate_hybrid on equal messages, tools and
\* confidence_threshold have equal outcomes, whatever the environment is in
\* each run.
C6_EqualRuns ==
    pc \in {"Terminal", "Raised"}
    => \A i \in DOMAIN results :
          results[i] = [raised |-> pc = "Raised", result |-> result]

\* 0 <= confidence <= 0.999
InRange(confidence) ==
    FloatGE(confidence, Milli(0)) /\ FloatGE(Milli(999), confidence)

\* C8: the confidence of every planner result and of every returned result
\* lies in [0, 0.999].
C8_ConfidenceInRange ==
    /\ \A i \in DOMAIN plans : InRange(plans[i].confidence)
    /\ InRange(local_a.confidence)
    /\ InRange(local_b.confidence)
    /\ InRange(result.confidence)

\* The candidate of the higher score is selected, and the pass-2 candidate
\* when the scores are equal
Selected(score_a, score_b) ==
    IF FloatLess(score_b, score_a) THEN best = "a"
    ELSE FloatGE(score_b, score_a) => best = "b"

\* C10: pass 2 selects the candidate with the higher score, the pass-2
\* candidate when the scores are equal (read in the state pass 2 leaves,
\* rejected or accepted); the acceptance test reads the
\* confidence and the validation of the selected candidate, and an accepted
\* result carries its calls, confidence and validation.
C10_BestIsSelected ==
    best # "none"
    => /\ (pc = "Pass2Evaluated"
           \/ result.route_reason = "pass2-repair-accepted")
          => Selected(_candidate_score(validation_a, local_a.confidence,
                                       complexity),
                      _candidate_score(validation_b, local_b.confidence,
                                       complexity))
       /\ (pc = "Terminal" /\ result.route_reason = "pass2-repair-accepted")
          => /\ FloatGE(best_local.confidence, threshold_b(confidence_threshold))
             /\ best_validation.valid
             /\ result = Result("on-device", "pass2-repair-accepted",
                                best_local, best_validation)
       /\ (~fallback_b
            /\ FloatGE(best_local.confidence, threshold_b(confidence_threshold))
            /\ best_validation.valid)
          => (pc = "Terminal"
              /\ result.route_reason = "pass2-repair-accepted")

C10_Witness ==
    /\ pc = "Terminal"
    /\ result.route_reason = "pass2-repair-accepted"
    /\ best = "b"
    /\ FloatLess(_candidate_score(validation_a, local_a.confidence, complexity),
                 _candidate_score(validation_b, local_b.confidence, complexity))
    /\ local_a.confidence # local_b.confidence
    /\ result.confidence = local_b.confidence
    /\ result.validation = validation_b

\* ------------------------------------------------------------------------
\* Properties of validation and coercion
\* ------------------------------------------------------------------------

\* The required parameters of spec that are no key of the call's arguments
MissingOf(spec, call) ==
    SelectSeq(spec.required, LAMBDA key : key \notin ArgKeys(ArgsOf(call)))

\* The calls of function_calls whose tool is not in index, those of a known
\* tool with a required parameter missing, and the number of arguments of
\* known-tool calls whose coercion fails
UnknownCalls(index, function_calls) ==
    SelectSeq(function_calls, LAMBDA c : ~Known(index, c))

IncompleteCalls(index, function_calls) ==
    SelectSeq(function_calls,
              LAMBDA c : Known(index, c) /\ MissingOf(index[c.name], c) # <<>>)

BadArgsOf(spec, args) ==
    {j \in DOMAIN args :
        ~_coerce_argument(args[j].value, ExpectedType(spec, args[j].key)).ok}

BadArgs(index, function_calls) ==
    UNION {{<<i, j>> : j \in BadArgsOf(index[function_calls[i].name],
                                       ArgsOf(function_calls[i]))} :
              i \in {k \in DOMAIN function_calls :
                        Known(index, function_calls[k])}}

ValidatedAs(out, index, function_calls, unknown_calls, incomplete_calls) ==
    /\ out.valid <=> /\ out.unknown_tool = <<>>
                     /\ out.missing_required = <<>>
                     /\ out.arg_type_issues = <<>>
    /\ out.unknown_tool = [i \in DOMAIN unknown_calls |-> StrOfName(unknown_calls[i])]
    /\ out.missing_required
         = [i \in DOMAIN incomplete_calls |->
               [tool |-> incomplete_calls[i].name,
                missing |-> MissingOf(index[incomplete_calls[i].name], incomplete_calls[i])]]
    /\ Len(out.arg_type_issues) = Cardinality(BadArgs(index, function_calls))
    /\ \A p \in BadArgs(index, function_calls) :
          \E k \in DOMAIN out.arg_type_issues :
             /\ out.arg_type_issues[k].tool = function_calls[p[1]].name
             /\ out.arg_type_issues[k].argument
                  = ArgsOf(function_calls[p[1]])[p[2]].key

\* C7: _validate_calls checks every call; valid holds iff the three issue
\* lists are empty; unknown_tool has exactly the names of the calls of tools
\* absent from the catalog, which add nothing else; missing_required has one
\* entry for exactly the known-tool calls with a required parameter missing,
\* listing exactly the missing parameters.
C7_ValidationTotal ==
    fn_pc = "validated"
    => ValidatedAs(fn_out[1], _tool_index(fn_in.tools), fn_in.function_calls,
                   UnknownCalls(_tool_index(fn_in.tools), fn_in.function_calls),
                   IncompleteCalls(_tool_index(fn_in.tools),
                                   fn_in.function_calls))

C7_Witness ==
    /\ fn_pc = "validated"
    /\ fn_in.tools = PAYMENT_TOOLS
    /\ fn_in.function_calls = <<Refund, ResolveNobody>>
    /\ fn_out[1].unknown_tool = <<"refund">>
    /\ fn_out[1].missing_required
         = <<[tool |-> "resolve_payee", missing |-> <<"payee_name">>]>>
    /\ ~fn_out[1].valid

\* C9: _coerce_argument applied to the value it returned returns the same
\* value and flag; a value returned with ok = TRUE is type-compatible with the
\* expected type; _normalize_calls applied to a normalized call list returns
\* an equal call list.
C9_CoercionIdempotent ==
    /\ fn_pc \in {"coerced", "recoerced"}
       => (fn_out[1].ok
           => _is_type_compatible(fn_out[1].value, fn_in.expected_type))
    /\ fn_pc = "recoerced" => fn_out[2] = fn_out[1]
    /\ fn_pc = "renormalized" => fn_out[2] = fn_out[1]

C9_Witness ==
    /\ fn_pc = "recoerced"
    /\ fn_in.expected_type = "integer"
    /\ fn_in.value = PyStr(<<"0","0","7">>)
    /\ fn_out = <<[value |-> PyInt(7), ok |-> TRUE],
                  [value |-> PyInt(7), ok |-> TRUE]>>

\* ------------------------------------------------------------------------
\* _needs_cloud_fallback on its own
\* ------------------------------------------------------------------------
\* fn_in is the sequence of the argument tuples of the applications and
\* fn_out the sequence of what they returned.

\* An optional entry of a payment context
Given(value) == [has |-> TRUE, v |-> value]

Absent == [has |-> FALSE, v |-> FALSE]

\* absent, 499.99, 500.0
AmountOptions == {Absent, Given(Milli(499990)), Given(Milli(500000))}

ContextOf(amount, new_payee, first_time_payee, biometric_strong) ==
    SetDefault(
        SetDefault(
            SetDefault(
                SetDefault(EmptyMap, amount.has, "amount", amount.v),
                new_payee.has, "new_payee", new_payee.v),
            first_time_payee.has, "first_time_payee", first_time_payee.v),
        biometric_strong.has, "biometric_strong", biometric_strong.v)

Contexts ==
    {ContextOf(a, n, f, b) :
        a \in AmountOptions, n \in {Absent, Given(TRUE)},
        f \in {Absent, Given(TRUE)}, b \in {Absent, Given(FALSE)}}

\* Confidences around the two floors 0.96 and 0.995, and nan
ConfidenceGrid ==
    {Milli(0), Milli(930), Milli(950), Milli(959), Milli(960), Milli(965),
     Milli(980), Milli(994), Milli(995), Milli(999), FloatNaN}

ValidationSamples ==
    {ValidationResult(<<>>, <<>>, <<>>),
     ValidationResult(<<"refund">>, <<>>, <<>>)}

ComplexitySamples ==
    {ComplexityOf(0, 0, FALSE), ComplexityOf(2, 0, FALSE)}

FallbackInputs ==
    [local_result : {[function_calls |-> calls, confidence |-> c] :
                        calls \in {<<IntentAlice>>, <<IntentAlice, ConfirmYes>>},
                        c \in ConfidenceGrid},
     validation : ValidationSamples,
     complexity : ComplexitySamples,
     payment_context : Contexts]

NeedsFallback(in) ==
    _needs_cloud_fallback(in.local_result, in.validation, in.complexity,
                          in.payment_context)

Decide ==
    /\ fn_pc = "decide"
    /\ fn_out' = <<NeedsFallback(fn_in[1])>>
    /\ fn_pc' = "decided"
    /\ UNCHANGED <<fn_in, routeVars>>

\* The decision again, with another confidence or another payment context
DecideAgain(in) ==
    /\ fn_pc = "decided"
    /\ fn_in' = Append(fn_in, in)
    /\ fn_out' = Append(fn_out, NeedsFallback(in))
    /\ fn_pc' = "compared"
    /\ UNCHANGED routeVars

DecideAtConfidence ==
    \E c \in ConfidenceGrid :
        DecideAgain([fn_in[1] EXCEPT !.local_result.confidence = c])

DecideInContext ==
    \E ctx \in Contexts : DecideAgain([fn_in[1] EXCEPT !.payment_context = ctx])

InitFallback ==
    /\ RouteIdle
    /\ fn_pc = "decide"
    /\ fn_in \in {<<in>> : in \in FallbackInputs}
    /\ fn_out = <<>>

NextFallback == Decide \/ DecideAtConfidence \/ DecideInContext

SpecFallback == InitFallback /\ [][NextFallback]_vars

\* amount >= 500, a new or first-time payee, or weak authentication
RiskyContext(ctx) ==
    \/ "amount" \in DOMAIN ctx /\ FloatGE(ctx["amount"], Milli(500000))
    \/ "new_payee" \in DOMAIN ctx /\ ctx["new_payee"]
    \/ "first_time_payee" \in DOMAIN ctx /\ ctx["first_time_payee"]
    \/ "biometric_strong" \in DOMAIN ctx /\ ~ctx["biometric_strong"]

\* Two applications that differ in the confidence, or in the context, only
Compared(in1, in2, out1, out2) ==
    /\ (FloatGE(in2.local_result.confidence, in1.local_result.confidence)
        /\ in2.payment_context = in1.payment_context
        /\ ~out1)
       => ~out2
    /\ (in2.local_result.confidence = in1.local_result.confidence
        /\ RiskyContext(in1.payment_context)
        /\ ~RiskyContext(in2.payment_context)
        /\ ~out1)
       => ~out2
    /\ (in2.local_result.confidence = in1.local_result.confidence
        /\ FloatGE(in1.local_result.confidence, Milli(960))
        /\ FloatLess(in1.local_result.confidence, Milli(995))
        /\ in1.validation.valid
        /\ ~(in1.complexity.label = "multi_intent"
             /\ Len(in1.local_result.function_calls) < 2)
        /\ ~RiskyContext(in1.payment_context)
        /\ RiskyContext(in2.payment_context))
       => (~out1 /\ out2)

\* C11: with validation, complexity and calls fixed, (i) no fallback at a
\* confidence means no fallback at any higher confidence, (ii) no fallback
\* under a high-risk context means no fallback under a context that is not
\* high-risk, and at every confidence in [0.96, 0.995) a valid, decomposed
\* plan needs no fallback under a context that is not high-risk and needs
\* one under a high-risk context.
C11_FallbackMonotone ==
    fn_pc = "compared" => Compared(fn_in[1], fn_in[2], fn_out[1], fn_out[2])

C11_Witness ==
    /\ fn_pc = "compared"
    /\ fn_in[1].local_result.confidence = Milli(965)
    /\ fn_in[2].local_result.confidence = Milli(965)
    /\ fn_in[1].payment_context = EmptyMap
    /\ fn_in[2].payment_context = ContextOf(Absent, Absent, Given(TRUE), Absent)
    /\ fn_out = <<FALSE, TRUE>>


\* C12: every on-device result, accepted in pass 1 or in pass 2, has a valid
\* validation and a confidence of at least 0.96, whatever the caller's
\* threshold and the planner's outputs: a selected candidate below 0.96 is
\* not accepted even when it reaches theta_b = 0.95.
C12_OnDeviceValidAbove096 ==
    /\ (pc = "Terminal" /\ result.source = "on-device")
       => /\ result.route_reason \in {"pass1-accepted", "pass2-repair-accepted"}
          /\ result.validation.valid
          /\ FloatGE(result.confidence, Milli(960))
    /\ (best # "none" /\ pc \in {"Pass2Evaluated", "Terminal"}
        /\ ~FloatGE(best_local.confidence, Milli(960)))
       => result.source # "on-device"

C12_Witness ==
    /\ pc = "Terminal"
    /\ confidence_threshold = Milli(500)
    /\ threshold_b(confidence_threshold) = Milli(950)
    /\ local_a.confidence = Milli(930)
    /\ fallback_a
    /\ validation_a.valid
    /\ result.source = "on-device"
    /\ result.route_reason = "pass2-repair-accepted"
    /\ result.confidence = Milli(965)
    /\ result.validation.valid

====
